---- MODULE Spec2Model ----
(***************************************************************************)
(* Job orchestration engine of LUMINA-AI: JobManager (job_manager.py), the *)
(* pipeline sequencer (pipeline.py) and the routes that drive them         *)
(* (routes/upload.py, routes/jobs.py).                                     *)
(*                                                                         *)
(* A Job is one Python object shared by reference between the _jobs dict,  *)
(* the worker thread that runs it and every reader that got it from        *)
(* get_job/list_jobs.  The model keeps Job objects in `heap` and the dict  *)
(* in `jobs`.  Only the statements inside `with self._jobs_lock` are       *)
(* mutually exclusive; a worker's attribute writes in _run_job are not     *)
(* under the lock, so they interleave with the body of cancel_job.  Each   *)
(* action is one attribute read or write (or one blocking call).           *)
(***************************************************************************)
EXTENDS Integers, Sequences, FiniteSets, TLC

\* ---------------------------------------------------------------- bounds
MaxJobs == 1       \* Job objects ever constructed
MaxSubmit == 2     \* enqueue calls made directly on the JobManager
MaxFrames == 2     \* frames ffmpeg extracts from one video
MaxSame == 2       \* uploads of one and the same image file
MaxCancelled == 1  \* of them, jobs cancelled before a pool thread has them
MaxBurst == 3      \* uploads in a burst: more than there are pool threads
MaxReports == 2    \* set_progress calls with a value of the caller's choice
MaxCallers == 3    \* threads that call JobManager.get_shared

\* ------------------------------------------------------ program constants
Workers == 2       \* JOB_WORKERS default

MaxCreated ==
    IF MaxBurst >= MaxSame /\ MaxBurst >= MaxJobs THEN MaxBurst
    ELSE IF MaxSame >= MaxJobs THEN MaxSame ELSE MaxJobs

JobIds == 1..MaxCreated
WorkerIds == 1..Workers
CallerIds == 1..MaxCallers

None == "None"
PENDING == "PENDING"
RUNNING == "RUNNING"
COMPLETED == "COMPLETED"
FAILED == "FAILED"
CANCELLED == "CANCELLED"
JobStatus == {PENDING, RUNNING, COMPLETED, FAILED, CANCELLED}
Terminal == {COMPLETED, FAILED, CANCELLED}

\* JobType = Literal["image", "video"]; "audio" stands for any other string.
JobType == {"image", "video"}
MediaTypes == JobType \cup {"audio"}

\* An optional option value is {} (None) or {v}.
truthy(s) == \E v \in s : v # 0

\* The options dict the upload route builds: it parses scale, target_width,
\* target_height (None when absent) and never sets mode or strength.
UploadOptions ==
    { [scale |-> s, target_width |-> {}, target_height |-> {},
       mode |-> {}, strength |-> {}] : s \in {{}, {2}} }

VARIABLES
    heap,        \* Seq of Job objects, in order of construction
    jobs,        \* JobManager._jobs: job id -> index into heap (0 = no entry)
    jobs_lock,   \* JobManager._jobs_lock is held across steps (by cancel_job)
    queue,       \* ThreadPoolExecutor work queue: Job objects submitted
    worker,      \* pool threads: position in _run_job / process_media, locals
    canceller,   \* the thread inside cancel_job: position and locals
    uploading,   \* upload handlers between create_job and enqueue
    submitted,   \* history: number of submit calls per Job object
    accepted,    \* history: status read at line 94 by the first accepted cancel_job
    invoked,     \* history: process_media invocations per Job object
    JobManager,  \* class attributes JobManager._shared and JobManager._lock
    caller,      \* threads inside JobManager.get_shared: position, result
    constructed  \* history: number of JobManager() constructions

vars == <<heap, jobs, jobs_lock, queue, worker, canceller, uploading,
          submitted, accepted, invoked, JobManager, caller, constructed>>

Objs == 1..Len(heap)

\* ------------------------------------------------------------- dataclass Job
\* updated_at counts the clock readings stored in the job since it was
\* constructed (created_at = updated_at = 0 then).
Job(job_id, input_path, media_type, options) ==
    [id |-> job_id, input_path |-> input_path, media_type |-> media_type,
     options |-> options,
     status |-> PENDING, output_path |-> None, progress |-> 0,
     error |-> None, updated_at |-> 0, cancel_requested |-> FALSE]

NoOptions ==
    [scale |-> {}, target_width |-> {}, target_height |-> {},
     mode |-> {}, strength |-> {}]

\* A pool thread with no work item; the fields are the locals of _run_job,
\* process_media and set_progress (ret: where the current call returns to;
\* calls: the collaborator calls made so far for the work item;
\* cancel_in_frame: history, the frame loop was left while a frame was
\* being processed or had been, with cancel_requested set since that
\* frame's check at line 130).
IdleWorker ==
    [pc |-> "idle", job |-> 0, options |-> NoOptions, total_frames |-> 0,
     frame_files |-> 0, completed |-> 0, output_path |-> None, exc |-> None,
     status |-> None, progress |-> 0, ret |-> "idle", calls |-> <<>>,
     cancel_in_frame |-> FALSE]

\* No cancel_job call in progress; job is the object the last call found (0:
\* none) and ret what it returned.  During a call: job_id the argument, job
\* the object found, was its status as read at line 94.
IdleCanceller ==
    [pc |-> "idle", job_id |-> 0, job |-> 0, was |-> None, ret |-> None]

\* Lines 47-48: the class attributes.  _shared is 0 for None, otherwise the
\* identity of a JobManager instance (instances are numbered in order of
\* construction); _lock is 0 when free, otherwise the thread that holds it.
JobManagerClass == [_shared |-> 0, _lock |-> 0]

\* A thread outside get_shared: ret is what its last call returned (0: it
\* has not returned from one), early whether _shared was None when that
\* call began.
IdleCaller == [pc |-> "idle", ret |-> 0, early |-> FALSE]

Init ==
    /\ JobManager = JobManagerClass
    /\ caller = [c \in CallerIds |-> IdleCaller]
    /\ constructed = 0
    /\ heap = <<>>
    /\ jobs = [i \in JobIds |-> 0]
    /\ jobs_lock = FALSE
    /\ queue = <<>>
    /\ worker = [w \in WorkerIds |-> IdleWorker]
    /\ canceller = IdleCanceller
    /\ uploading = {}
    /\ submitted = <<>>
    /\ accepted = <<>>
    /\ invoked = <<>>

\* ------------------------------------------------- JobManager.create_job
\* job = Job(...); with self._jobs_lock: self._jobs[job_id] = job
create_job(job_id, input_path, media_type, options) ==
    /\ ~jobs_lock
    /\ heap' = Append(heap, Job(job_id, input_path, media_type, options))
    /\ jobs' = [jobs EXCEPT ![job_id] = Len(heap) + 1]
    /\ submitted' = Append(submitted, 0)
    /\ accepted' = Append(accepted, None)
    /\ invoked' = Append(invoked, 0)

\* ---------------------------------------------------- JobManager.enqueue
\* self._executor.submit(self._run_job, job)
enqueue(o) ==
    /\ queue' = Append(queue, o)
    /\ submitted' = [submitted EXCEPT ![o] = @ + 1]

\* ------------------------------------------------------ routes/upload.py
\* line 31: input_path = os.path.join(input_dir, f"{job_id}_{filename}"); a
\* path is a directory, the job id its file name starts with (0: none), the
\* rest of the name and the extension.
upload_input_path(job_id) ==
    [dir |-> "input", job_id |-> job_id, filename |-> "photo", ext |-> "png"]

\* job_id = str(uuid.uuid4()): an id no job has had; ids are opaque, the
\* least unused one stands for it.
uuid4 == CHOOSE job_id \in JobIds : \A o \in Objs : heap[o].id # job_id

\* The work item of job object o was submitted and has ended: it is not
\* queued and no pool thread has it.
finished(o) ==
    /\ submitted[o] > 0
    /\ \A i \in 1..Len(queue) : queue[i] # o
    /\ \A w \in WorkerIds : worker[w].job # o

\* upload(), up to job_manager.create_job: media_type is what
\* detect_media_type returns for an allowed file.  The video sequence passes
\* the upscale options on to every upscale_image call and never tests them
\* (pipeline.py lines 136-143), so one options value stands for all of them.
\* The client uploads one file after the other, the next when the work item
\* of the one before has ended (uploads side by side: same_upload_create).
upload_create ==
    /\ Len(heap) < MaxJobs
    /\ \A o \in Objs : finished(o)
    /\ \E media_type \in JobType, options \in UploadOptions :
          /\ media_type = "video" => options = NoOptions
          /\ create_job(uuid4, upload_input_path(uuid4), media_type, options)
    /\ uploading' = uploading \cup {Len(heap) + 1}
    /\ UNCHANGED <<jobs_lock, queue, worker, canceller,
                   JobManager, caller, constructed>>

\* upload(), job_manager.enqueue(job)
upload_enqueue ==
    /\ \E o \in uploading :
          /\ enqueue(o)
          /\ uploading' = uploading \ {o}
    /\ UNCHANGED <<heap, jobs, jobs_lock, worker, canceller, accepted, invoked,
                   JobManager, caller, constructed>>

\* upload() of a file uploaded before: the same image, the same form fields.
same_upload_create ==
    /\ Len(heap) < MaxSame
    /\ create_job(uuid4, upload_input_path(uuid4), "image", NoOptions)
    /\ uploading' = uploading \cup {Len(heap) + 1}
    /\ UNCHANGED <<jobs_lock, queue, worker, canceller,
                   JobManager, caller, constructed>>

\* upload() called in a burst: the same image again and again, faster
\* than the pool works.
burst_upload_create ==
    /\ Len(heap) < MaxBurst
    /\ create_job(uuid4, upload_input_path(uuid4), "image", NoOptions)
    /\ uploading' = uploading \cup {Len(heap) + 1}
    /\ UNCHANGED <<jobs_lock, queue, worker, canceller,
                   JobManager, caller, constructed>>

\* ------------------------------------- JobManager's methods called directly
\* A path the caller of create_job chose: a file of its own.
caller_input_path ==
    [dir |-> "media", job_id |-> 0, filename |-> "photo", ext |-> "png"]

\* create_job called directly for files of the caller, with options as the
\* upload route builds them.
api_create_job_for_file ==
    /\ Len(heap) < MaxSame
    /\ \E media_type \in JobType, options \in UploadOptions :
          /\ media_type = "video" => options = NoOptions
          /\ create_job(uuid4, caller_input_path, media_type, options)
    /\ UNCHANGED <<jobs_lock, queue, worker, canceller, uploading,
                   JobManager, caller, constructed>>

\* create_job with any media_type string and an empty options dict.
api_create_job ==
    /\ Len(heap) < MaxJobs
    /\ \E media_type \in MediaTypes :
          create_job(uuid4, caller_input_path, media_type, NoOptions)
    /\ UNCHANGED <<jobs_lock, queue, worker, canceller, uploading,
                   JobManager, caller, constructed>>

RECURSIVE total(_)
total(counts) ==
    IF counts = <<>> THEN 0 ELSE Head(counts) + total(Tail(counts))

\* enqueue with any stored Job object, also one that was submitted before.
api_enqueue ==
    /\ total(submitted) < MaxSubmit
    /\ \E o \in Objs : enqueue(o)
    /\ UNCHANGED <<heap, jobs, jobs_lock, worker, canceller, uploading,
                   accepted, invoked,
                   JobManager, caller, constructed>>

\* The caller of create_job keeps the dict it passed as options and sets a
\* key of it, options["scale"] = 2: Job(options=options) at line 72 holds
\* the same dict, no copy, so the Job's options are that dict.
api_mutate_options ==
    /\ \E o \in Objs :
          /\ heap[o].options.scale = {}
          /\ heap' = [heap EXCEPT ![o].options.scale = {2}]
    /\ UNCHANGED <<jobs, jobs_lock, queue, worker, canceller, uploading,
                   submitted, accepted, invoked,
                   JobManager, caller, constructed>>

\* ------------------------------------------------- JobManager.cancel_job
\* routes/jobs.py cancel_job passes any id string: the call is entered and
\* waits for the lock.
cancel_job_call ==
    /\ canceller.pc = "idle"
    /\ \E job_id \in JobIds :
         canceller' = [IdleCanceller EXCEPT !.pc = "L86", !.job_id = job_id]
    /\ UNCHANGED <<heap, jobs, jobs_lock, queue, worker, uploading, submitted,
                   accepted, invoked,
                   JobManager, caller, constructed>>

\* The client cancels a job right after its upload: the call is entered
\* while no pool thread has taken the job yet.
cancel_new_call ==
    /\ canceller.pc = "idle"
    /\ Cardinality({o \in Objs : accepted[o] # None}) < MaxCancelled
    /\ \E o \in Objs :
         /\ o \in uploading \/ \E i \in 1..Len(queue) : queue[i] = o
         /\ canceller' = [IdleCanceller EXCEPT !.pc = "L86",
                                               !.job_id = heap[o].id]
    /\ UNCHANGED <<heap, jobs, jobs_lock, queue, worker, uploading, submitted,
                   accepted, invoked,
                   JobManager, caller, constructed>>

\* Variant: CANCELLED is missing from the set of line 90.
cancel_terminal_without_cancelled(status) == status \in {COMPLETED, FAILED}

\* line 90: if job.status in {COMPLETED, FAILED, CANCELLED}
cancel_terminal(status) == status \in {COMPLETED, FAILED, CANCELLED}

\* lines 86-91: take the lock, look the job up, return False when it is
\* unknown or terminal.
cancel_job_L86 ==
    LET job == jobs[canceller.job_id] IN
    /\ canceller.pc = "L86"
    /\ ~jobs_lock
    /\ IF job = 0
       THEN /\ canceller' = [IdleCanceller EXCEPT !.ret = "False"]
            /\ UNCHANGED jobs_lock
       ELSE IF cancel_terminal(heap[job].status)
       THEN /\ canceller' = [IdleCanceller EXCEPT !.ret = "False", !.job = job]
            /\ UNCHANGED jobs_lock
       ELSE /\ canceller' = [canceller EXCEPT !.pc = "L92", !.job = job]
            /\ jobs_lock' = TRUE
    /\ UNCHANGED <<heap, jobs, queue, worker, uploading, submitted,
                   accepted, invoked,
                   JobManager, caller, constructed>>

\* Variant: line 92 sets the flag of every stored job.
cancel_job_L92_every_job ==
    /\ canceller.pc = "L92"
    /\ heap' = [o \in Objs |-> [heap[o] EXCEPT !.cancel_requested = TRUE]]
    /\ canceller' = [canceller EXCEPT !.pc = "L94"]
    /\ UNCHANGED <<jobs, jobs_lock, queue, worker, uploading, submitted,
                   accepted, invoked,
                   JobManager, caller, constructed>>

\* line 92: job.cancel_requested = True
cancel_job_L92 ==
    /\ canceller.pc = "L92"
    /\ heap' = [heap EXCEPT ![canceller.job].cancel_requested = TRUE]
    /\ canceller' = [canceller EXCEPT !.pc = "L94"]
    /\ UNCHANGED <<jobs, jobs_lock, queue, worker, uploading, submitted,
                   accepted, invoked,
                   JobManager, caller, constructed>>

\* Variant: line 94 also marks a RUNNING job CANCELLED.
cancel_not_started_or_running(status) == status \in {PENDING, RUNNING}

\* line 94: if job.status == JobStatus.PENDING
cancel_not_started(status) == status = PENDING

cancel_job_L94 ==
    /\ canceller.pc = "L94"
    /\ canceller' = [canceller EXCEPT
                       !.was = heap[canceller.job].status,
                       !.pc = IF cancel_not_started(heap[canceller.job].status)
                              THEN "L95" ELSE "L96"]
    /\ UNCHANGED <<heap, jobs, jobs_lock, queue, worker, uploading,
                   submitted, accepted, invoked,
                   JobManager, caller, constructed>>

\* line 95: job.status = JobStatus.CANCELLED
cancel_job_L95 ==
    /\ canceller.pc = "L95"
    /\ heap' = [heap EXCEPT ![canceller.job].status = CANCELLED]
    /\ canceller' = [canceller EXCEPT !.pc = "L96"]
    /\ UNCHANGED <<jobs, jobs_lock, queue, worker, uploading, submitted,
                   accepted, invoked,
                   JobManager, caller, constructed>>

\* lines 96-97: self._jobs[job_id] = job; return True (the lock is released)
cancel_job_L96 ==
    /\ canceller.pc = "L96"
    /\ jobs' = [jobs EXCEPT ![canceller.job_id] = canceller.job]
    /\ jobs_lock' = FALSE
    /\ canceller' = [IdleCanceller EXCEPT !.ret = "True",
                                          !.job = canceller.job]
    /\ accepted' = [accepted EXCEPT ![canceller.job] =
                       IF @ = None THEN canceller.was ELSE @]
    /\ UNCHANGED <<heap, queue, worker, uploading, submitted, invoked,
                   JobManager, caller, constructed>>

cancel_job ==
    \/ cancel_job_call
    \/ cancel_job_L86
    \/ cancel_job_L92
    \/ cancel_job_L94
    \/ cancel_job_L95
    \/ cancel_job_L96

\* ------------------------------------------------------------ pool threads
\* Attribute writes of the worker go to the shared Job object.
setattr(o, field, value) == heap' = [heap EXCEPT ![o][field] = value]

\* The worker record r after one more collaborator call.
log(r, name) == [r EXCEPT !.calls = Append(@, name)]

\* A call made at position pc that returns to position ret.
call(w, pc, ret) == [worker[w] EXCEPT !.pc = pc, !.ret = ret]

\* An exception raised inside process_media unwinds to the except clause of
\* _run_job (line 119).
raise(w, exc) ==
    [IdleWorker EXCEPT !.pc = "L121", !.job = worker[w].job, !.exc = exc,
                       !.calls = worker[w].calls]

\* Variant: the work item taken stays in the queue.
submit_run_keeps(w) ==
    /\ worker[w].pc = "idle"
    /\ \A v \in WorkerIds : v < w => worker[v].pc # "idle"
    /\ queue # <<>>
    /\ worker' = [worker EXCEPT ![w] = [IdleWorker EXCEPT !.pc = "L104",
                                                         !.job = Head(queue)]]
    /\ UNCHANGED <<heap, jobs, jobs_lock, queue, canceller, uploading,
                   submitted, accepted, invoked,
                   JobManager, caller, constructed>>

\* An idle pool thread takes the oldest work item: _run_job(job) starts.
\* Pool threads are interchangeable; the lowest idle one is taken.
submit_run(w) ==
    /\ worker[w].pc = "idle"
    /\ \A v \in WorkerIds : v < w => worker[v].pc # "idle"
    /\ queue # <<>>
    /\ worker' = [worker EXCEPT ![w] = [IdleWorker EXCEPT !.pc = "L104",
                                                         !.job = Head(queue)]]
    /\ queue' = Tail(queue)
    /\ UNCHANGED <<heap, jobs, jobs_lock, canceller, uploading, submitted,
                   accepted, invoked,
                   JobManager, caller, constructed>>

\* --------------------------------------------------- JobManager._run_job
\* line 104: if job.cancel_requested and job.status == JobStatus.PENDING
\* (two attribute reads, the second only when the first is true)
run_job_L104(w) ==
    LET job == worker[w].job IN
    /\ worker[w].pc \in {"L104", "L104s"}
    /\ worker' = [worker EXCEPT ![w].pc =
         IF worker[w].pc = "L104"
         THEN IF heap[job].cancel_requested THEN "L104s" ELSE "L108"
         ELSE IF heap[job].status = PENDING THEN "L105" ELSE "L108"]
    /\ UNCHANGED <<heap, jobs, jobs_lock, queue, canceller, uploading,
                   submitted, accepted, invoked,
                   JobManager, caller, constructed>>

\* lines 105-107: job.status = CANCELLED; self._update_job(job); return
run_job_L105(w) ==
    /\ worker[w].pc = "L105"
    /\ setattr(worker[w].job, "status", CANCELLED)
    /\ worker' = [worker EXCEPT ![w] = call(w, "L128", "idle")]
    /\ UNCHANGED <<jobs, jobs_lock, queue, canceller, uploading, submitted,
                   accepted, invoked,
                   JobManager, caller, constructed>>

\* lines 108-109: job.status = RUNNING; self._update_job(job)
run_job_L108(w) ==
    /\ worker[w].pc = "L108"
    /\ setattr(worker[w].job, "status", RUNNING)
    /\ worker' = [worker EXCEPT ![w] = call(w, "L128", "L111")]
    /\ UNCHANGED <<jobs, jobs_lock, queue, canceller, uploading, submitted,
                   accepted, invoked,
                   JobManager, caller, constructed>>

\* time.time() as read for a job: a reading later than the one the job
\* holds.
time(job) == job.updated_at + 1

\* JobManager._update_job.  Line 128: job.updated_at = time.time(), before
\* the lock is taken.  Lines 129-130: with self._jobs_lock:
\* self._jobs[job.id] = job.  It returns to its caller; the last one of
\* _run_job (line 125, in finally) ends the work item.
_update_job(w) ==
    /\ worker[w].pc \in {"L128", "L129"}
    /\ IF worker[w].pc = "L128"
       THEN /\ setattr(worker[w].job, "updated_at", time(heap[worker[w].job]))
            /\ worker' = [worker EXCEPT ![w].pc = "L129"]
            /\ UNCHANGED jobs
       ELSE /\ ~jobs_lock
            /\ jobs' = [jobs EXCEPT ![heap[worker[w].job].id] = worker[w].job]
            /\ worker' = [worker EXCEPT ![w] =
                 IF worker[w].ret = "idle"
                 THEN IdleWorker
                 ELSE [worker[w] EXCEPT !.pc = worker[w].ret]]
            /\ UNCHANGED heap
    /\ UNCHANGED <<jobs_lock, queue, canceller, uploading, submitted,
                   accepted, invoked,
                   JobManager, caller, constructed>>

\* ------------------------------------------------ pipeline.process_media
\* ProcessOptions.from_dict(job.options or {}): every key read with .get
from_dict(data) ==
    [scale |-> data.scale, target_width |-> data.target_width,
     target_height |-> data.target_height, mode |-> data.mode,
     strength |-> data.strength]

\* f"{base_name}_{suffix}.{output_format}" under the output directory
output_path(job) == "output_path"

\* services/image_upscaler.py, def upscale_image: the keyword parameters it
\* declares.  A call with any other keyword raises TypeError before the body
\* runs.
upscale_image_params ==
    {"input_path", "output_path", "scale", "target_width", "target_height"}

upscale_image(kwargs) ==
    IF kwargs \subseteq upscale_image_params THEN "called" ELSE "TypeError"

\* The keywords both call sites in pipeline.py pass (lines 78-85, 136-143).
upscale_kwargs ==
    {"input_path", "output_path", "scale", "target_width", "target_height",
     "realesrgan_model"}

\* line 76: if options.scale or options.target_width or options.target_height
upscale_requested(options) ==
    truthy(options.scale) \/ truthy(options.target_width)
        \/ truthy(options.target_height)

\* lines 94-95, the arguments of apply_enhancements: mode=options.mode or
\* "general"; strength=float(options.strength) if options.strength is not
\* None else 0.6 (in thousandths)
enhance_mode(options) ==
    IF \E m \in options.mode : m # ""
    THEN CHOOSE m \in options.mode : TRUE
    ELSE "general"

enhance_strength(options) ==
    IF options.strength = {}
    THEN 600
    ELSE CHOOSE v \in options.strength : TRUE

\* Variant: the frames are extracted before ffmpeg is found to be missing.
process_media_extracts_first(w) ==
    LET job == worker[w].job
        options == from_dict(heap[job].options) IN
    /\ worker[w].pc = "L111"
    /\ invoked' = [invoked EXCEPT ![job] = @ + 1]
    /\ IF heap[job].media_type = "image"
       THEN worker' = [worker EXCEPT ![w] =
              [worker[w] EXCEPT !.pc = "I72", !.options = options]]
       ELSE IF heap[job].media_type = "video"
       THEN \E ffmpeg_available \in BOOLEAN :
              worker' = [worker EXCEPT ![w] =
                IF ~ffmpeg_available
                THEN log(log(raise(w, "ffmpeg is required for video processing"),
                             "ffmpeg_available"), "extract_frames")
                ELSE log([worker[w] EXCEPT !.pc = "V111",
                                           !.options = options],
                         "ffmpeg_available")]
       ELSE worker' = [worker EXCEPT ![w] = raise(w, "Unsupported media type")]
    /\ UNCHANGED <<heap, jobs, jobs_lock, queue, canceller, uploading,
                   submitted, accepted,
                   JobManager, caller, constructed>>

\* _run_job line 111 calls process_media (lines 46-54): the options are read
\* from the job now, then the media type selects the sequence.  For a video,
\* _process_video lines 103-104 follow: ffm.ffmpeg_available() looks ffmpeg
\* and ffprobe up in PATH.
process_media(w) ==
    LET job == worker[w].job
        options == from_dict(heap[job].options) IN
    /\ worker[w].pc = "L111"
    /\ invoked' = [invoked EXCEPT ![job] = @ + 1]
    /\ IF heap[job].media_type = "image"
       THEN worker' = [worker EXCEPT ![w] =
              [worker[w] EXCEPT !.pc = "I72", !.options = options]]
       ELSE IF heap[job].media_type = "video"
       THEN \E ffmpeg_available \in BOOLEAN :
              worker' = [worker EXCEPT ![w] =
                log(IF ~ffmpeg_available
                    THEN raise(w, "ffmpeg is required for video processing")
                    ELSE [worker[w] EXCEPT !.pc = "V111",
                                           !.options = options],
                    "ffmpeg_available")]
       ELSE worker' = [worker EXCEPT ![w] = raise(w, "Unsupported media type")]
    /\ UNCHANGED <<heap, jobs, jobs_lock, queue, canceller, uploading,
                   submitted, accepted,
                   JobManager, caller, constructed>>

\* ----------------------------------------------- pipeline._process_image
\* line 61: base_name, _ = os.path.splitext(os.path.basename(job.input_path))
base_name(input_path) ==
    [job_id |-> input_path.job_id, filename |-> input_path.filename]

\* line 77: temp_up = os.path.join(output_dir,
\* f"{base_name}_tmp_upscale.{output_format}")
image_temp_up(job) ==
    [dir |-> "output", name |-> base_name(job.input_path),
     suffix |-> "tmp_upscale"]

\* _process_video line 107: frames_job_dir = os.path.join(frames_root, job.id)
frames_job_dir(job) ==
    [dir |-> "frames", name |-> [job_id |-> job.id, filename |-> ""],
     suffix |-> ""]

\* lines 72-73, the early cancel check (I72); then lines 76-91 (I76): the
\* upscale call when one is requested, apply_enhancements otherwise.
process_image_L72(w) ==
    LET job == worker[w].job IN
    /\ worker[w].pc \in {"I72", "I76"}
    /\ worker' = [worker EXCEPT ![w] =
         IF worker[w].pc = "I72"
         THEN IF heap[job].cancel_requested
              THEN raise(w, "cancelled")
              ELSE [worker[w] EXCEPT !.pc = "I76"]
         ELSE IF upscale_requested(worker[w].options)
         THEN log(IF upscale_image(upscale_kwargs) = "TypeError"
                  THEN raise(w, "TypeError")
                  ELSE [worker[w] EXCEPT !.pc = "I78"],
                  "upscale_image")
         ELSE log([worker[w] EXCEPT !.pc = "I91"], "apply_enhancements")]
    /\ UNCHANGED <<heap, jobs, jobs_lock, queue, canceller, uploading,
                   submitted, accepted, invoked,
                   JobManager, caller, constructed>>

\* A collaborator call of the image sequence ends: upscale_image (line 78)
\* returns and apply_enhancements is entered, or apply_enhancements (line
\* 91) returns and set_progress(job, 1.0) is called; either may raise.
\* After set_progress, line 99 returns output_path to _run_job line 112.
process_image_returns(w) ==
    LET job == worker[w].job IN
    /\ worker[w].pc \in {"I78", "I91"}
    /\ \E ok \in BOOLEAN :
         worker' = [worker EXCEPT ![w] =
           IF ~ok
           THEN raise(w, "ToolError")
           ELSE IF worker[w].pc = "I78"
           THEN log([worker[w] EXCEPT !.pc = "I91"], "apply_enhancements")
           ELSE [IdleWorker EXCEPT !.pc = "L137", !.ret = "L112",
                                   !.job = job, !.progress = 1000,
                                   !.calls = worker[w].calls,
                                   !.output_path = output_path(heap[job])]]
    /\ UNCHANGED <<heap, jobs, jobs_lock, queue, canceller, uploading,
                   submitted, accepted, invoked,
                   JobManager, caller, constructed>>

\* ------------------------------------------------ JobManager.set_progress
\* line 137: job.progress = max(0.0, min(1.0, progress)), in thousandths;
\* line 138 calls _update_job, which returns to the caller of set_progress.
Max(a, b) == IF a >= b THEN a ELSE b
Min(a, b) == IF a <= b THEN a ELSE b

\* Variant: only the upper limit is applied.
clamp_upper(progress) == Min(1000, progress)

clamp(progress) == Max(0, Min(1000, progress))

\* Values a caller may pass to set_progress (thousandths): below 0, the
\* limits, between them and above 1.
ProgressInputs == {0 - 500, 0, 250, 1000, 1500}

\* A pipeline stage of an image job calls job_manager.set_progress(job, v)
\* with any v; the call returns to the stage.
stage_set_progress(w) ==
    /\ worker[w].pc = "I72"
    /\ heap[worker[w].job].updated_at <= MaxReports
    /\ \E v \in ProgressInputs :
         worker' = [worker EXCEPT ![w] =
                      [call(w, "L137", "I72") EXCEPT !.progress = v]]
    /\ UNCHANGED <<heap, jobs, jobs_lock, queue, canceller, uploading,
                   submitted, accepted, invoked,
                   JobManager, caller, constructed>>

set_progress(w) ==
    /\ worker[w].pc = "L137"
    /\ setattr(worker[w].job, "progress", clamp(worker[w].progress))
    /\ worker' = [worker EXCEPT ![w].pc = "L128"]
    /\ UNCHANGED <<jobs, jobs_lock, queue, canceller, uploading, submitted,
                   accepted, invoked,
                   JobManager, caller, constructed>>

\* ----------------------------------------------- pipeline._process_video
\* lines 111-115: the stage-1 cancel check, then get_video_fps and
\* extract_frames are entered.
process_video_L111(w) ==
    LET job == worker[w].job IN
    /\ worker[w].pc = "V111"
    /\ worker' = [worker EXCEPT ![w] =
         IF heap[job].cancel_requested
         THEN raise(w, "cancelled")
         ELSE log(log([worker[w] EXCEPT !.pc = "V115"], "get_video_fps"),
                  "extract_frames")]
    /\ UNCHANGED <<heap, jobs, jobs_lock, queue, canceller, uploading,
                   submitted, accepted, invoked,
                   JobManager, caller, constructed>>

\* lines 122-123: if total_frames and len(frame_files) != total_frames
adjust_total(total_frames, len_frame_files) ==
    IF total_frames # 0 /\ len_frame_files # total_frames
    THEN len_frame_files ELSE total_frames

\* lines 115-128: extract_frames returns the number of frames it wrote (or
\* ffmpeg fails); extract_audio never raises; set_progress(job, 0.1) is
\* called.  The locals of lines 121-128 are set here: list_frame_files
\* lists the files extract_frames counted, and completed = 0.
process_video_L115(w) ==
    /\ worker[w].pc = "V115"
    /\ \/ worker' = [worker EXCEPT ![w] = raise(w, "ToolError")]
       \/ \E count \in 0..MaxFrames :
            worker' = [worker EXCEPT ![w] =
              log([call(w, "L137", "V130") EXCEPT
                     !.progress = 100, !.frame_files = count,
                     !.total_frames = adjust_total(count, count),
                     !.completed = 0],
                  "extract_audio")]
    /\ UNCHANGED <<heap, jobs, jobs_lock, queue, canceller, uploading,
                   submitted, accepted, invoked,
                   JobManager, caller, constructed>>

\* line 153: 0.1 + 0.8 * (completed / total_frames), in thousandths
stage_progress(completed, total_frames) ==
    100 + (800 * completed) \div total_frames

\* Variant: without the cancel check of line 168 before assemble_video.
process_video_frames_unchecked(w) ==
    LET job == worker[w].job
        me == worker[w]
        raised(exc) == [raise(w, exc) EXCEPT
                          !.cancel_in_frame = heap[job].cancel_requested] IN
    /\ me.pc \in {"V130", "V132", "V136", "V144"}
    /\ \E ok \in BOOLEAN :
         worker' = [worker EXCEPT ![w] =
           CASE me.pc = "V130" ->
                  IF heap[job].cancel_requested
                       /\ me.completed < me.frame_files
                  THEN [raise(w, "cancelled") EXCEPT
                          !.cancel_in_frame = me.completed > 0]
                  ELSE IF me.completed < me.frame_files
                  THEN [me EXCEPT !.pc = "V132"]
                  ELSE log([me EXCEPT !.pc = "V181"], "assemble_video")
             [] me.pc = "V132" ->
                  log(IF upscale_image(upscale_kwargs) = "TypeError"
                      THEN raised("TypeError")
                      ELSE [me EXCEPT !.pc = "V136"],
                      "upscale_image")
             [] me.pc = "V136" ->
                  IF ok
                  THEN log([me EXCEPT !.pc = "V144"], "apply_enhancements")
                  ELSE raised("ToolError")
             [] me.pc = "V144" ->
                  IF ~ok
                  THEN raised("ToolError")
                  ELSE IF me.total_frames # 0
                  THEN [call(w, "L137", "V130") EXCEPT
                          !.completed = me.completed + 1,
                          !.progress = stage_progress(me.completed + 1,
                                                      me.total_frames)]
                  ELSE [me EXCEPT !.completed = me.completed + 1,
                                  !.pc = "V130"]]
    /\ UNCHANGED <<heap, jobs, jobs_lock, queue, canceller, uploading,
                   submitted, accepted, invoked,
                   JobManager, caller, constructed>>

\* lines 129-181, the frame loop.  V130: the loop head; with a frame left,
\* the cancel check of line 130; with none left, the cancel check of line
\* 168 and the assemble_video call of line 181.  V132: the upscale_image
\* call of line 136 is made for the frame.  V136, V144: the upscale_image,
\* apply_enhancements call of a frame returns or raises; after the latter,
\* lines 150-154.
process_video_frames(w) ==
    LET job == worker[w].job
        me == worker[w]
        raised(exc) == [raise(w, exc) EXCEPT
                          !.cancel_in_frame = heap[job].cancel_requested] IN
    /\ me.pc \in {"V130", "V132", "V136", "V144"}
    /\ \E ok \in BOOLEAN :
         worker' = [worker EXCEPT ![w] =
           CASE me.pc = "V130" ->
                  IF heap[job].cancel_requested
                  THEN [raise(w, "cancelled") EXCEPT
                          !.cancel_in_frame = me.completed > 0]
                  ELSE IF me.completed < me.frame_files
                  THEN [me EXCEPT !.pc = "V132"]
                  ELSE log([me EXCEPT !.pc = "V181"], "assemble_video")
             [] me.pc = "V132" ->
                  log(IF upscale_image(upscale_kwargs) = "TypeError"
                      THEN raised("TypeError")
                      ELSE [me EXCEPT !.pc = "V136"],
                      "upscale_image")
             [] me.pc = "V136" ->
                  IF ok
                  THEN log([me EXCEPT !.pc = "V144"], "apply_enhancements")
                  ELSE raised("ToolError")
             [] me.pc = "V144" ->
                  IF ~ok
                  THEN raised("ToolError")
                  ELSE IF me.total_frames # 0
                  THEN [call(w, "L137", "V130") EXCEPT
                          !.completed = me.completed + 1,
                          !.progress = stage_progress(me.completed + 1,
                                                      me.total_frames)]
                  ELSE [me EXCEPT !.completed = me.completed + 1,
                                  !.pc = "V130"]]
    /\ UNCHANGED <<heap, jobs, jobs_lock, queue, canceller, uploading,
                   submitted, accepted, invoked,
                   JobManager, caller, constructed>>

\* Variant: line 190 reports 0.098 instead of 0.98.
process_video_L181_low(w) ==
    /\ worker[w].pc \in {"V181", "V198"}
    /\ IF worker[w].pc = "V181"
       THEN \/ worker' = [worker EXCEPT ![w] = raise(w, "ToolError")]
            \/ worker' = [worker EXCEPT ![w] =
                 [call(w, "L137", "V198") EXCEPT !.progress = 98]]
       ELSE worker' = [worker EXCEPT ![w] =
                 [IdleWorker EXCEPT !.pc = "L137", !.ret = "L112",
                                    !.job = worker[w].job, !.progress = 1000,
                                    !.calls = worker[w].calls,
                                    !.output_path =
                                        output_path(heap[worker[w].job])]]
    /\ UNCHANGED <<heap, jobs, jobs_lock, queue, canceller, uploading,
                   submitted, accepted, invoked,
                   JobManager, caller, constructed>>

\* lines 181-199: assemble_video returns (or ffmpeg fails) and
\* set_progress(job, 0.98) is called; then the raw frames are removed,
\* ignoring errors, and set_progress(job, 1.0) is called, after which
\* line 199 returns output_path to _run_job line 112.
process_video_L181(w) ==
    /\ worker[w].pc \in {"V181", "V198"}
    /\ IF worker[w].pc = "V181"
       THEN \/ worker' = [worker EXCEPT ![w] = raise(w, "ToolError")]
            \/ worker' = [worker EXCEPT ![w] =
                 [call(w, "L137", "V198") EXCEPT !.progress = 980]]
       ELSE worker' = [worker EXCEPT ![w] =
                 [IdleWorker EXCEPT !.pc = "L137", !.ret = "L112",
                                    !.job = worker[w].job, !.progress = 1000,
                                    !.calls = worker[w].calls,
                                    !.output_path =
                                        output_path(heap[worker[w].job])]]
    /\ UNCHANGED <<heap, jobs, jobs_lock, queue, canceller, uploading,
                   submitted, accepted, invoked,
                   JobManager, caller, constructed>>

\* ------------------------------------------- JobManager._run_job, the end
\* line 112: job.output_path = output_path; line 113: job.progress = 1.0
run_job_L112(w) ==
    /\ worker[w].pc \in {"L112", "L113"}
    /\ IF worker[w].pc = "L112"
       THEN /\ setattr(worker[w].job, "output_path", worker[w].output_path)
            /\ worker' = [worker EXCEPT ![w].pc = "L113"]
       ELSE /\ setattr(worker[w].job, "progress", 1000)
            /\ worker' = [worker EXCEPT ![w].pc = "L115"]
    /\ UNCHANGED <<jobs, jobs_lock, queue, canceller, uploading, submitted,
                   accepted, invoked,
                   JobManager, caller, constructed>>

\* line 115: if job.cancel_requested: CANCELLED else: COMPLETED (the read)
run_job_L115(w) ==
    /\ worker[w].pc = "L115"
    /\ worker' = [worker EXCEPT ![w] =
         [worker[w] EXCEPT !.pc = "L116",
            !.status = IF heap[worker[w].job].cancel_requested
                       THEN CANCELLED ELSE COMPLETED]]
    /\ UNCHANGED <<heap, jobs, jobs_lock, queue, canceller, uploading,
                   submitted, accepted, invoked,
                   JobManager, caller, constructed>>

\* Variant: the except clause of line 117 lets the exception out of the
\* work item and the pool thread ends.
run_job_L121_propagates(w) ==
    /\ worker[w].pc = "L121"
    /\ worker' = [worker EXCEPT ![w].pc = "ended"]
    /\ UNCHANGED <<heap, jobs, jobs_lock, queue, canceller, uploading,
                   submitted, accepted, invoked,
                   JobManager, caller, constructed>>

\* Variant: line 121 records a fixed text instead of the message.
run_job_L121_generic(w) ==
    /\ worker[w].pc = "L121"
    /\ setattr(worker[w].job, "error", "Job failed")
    /\ worker' = [worker EXCEPT ![w].pc = "L123"]
    /\ UNCHANGED <<jobs, jobs_lock, queue, canceller, uploading, submitted,
                   accepted, invoked,
                   JobManager, caller, constructed>>

\* line 121: job.error = str(exc)
run_job_L121(w) ==
    /\ worker[w].pc = "L121"
    /\ setattr(worker[w].job, "error", worker[w].exc)
    /\ worker' = [worker EXCEPT ![w].pc = "L123"]
    /\ UNCHANGED <<jobs, jobs_lock, queue, canceller, uploading, submitted,
                   accepted, invoked,
                   JobManager, caller, constructed>>

\* Variant: line 123 sets FAILED whatever cancel_requested is.
run_job_L123_failed(w) ==
    /\ worker[w].pc = "L123"
    /\ worker' = [worker EXCEPT ![w] =
         [worker[w] EXCEPT !.pc = "L116",
            !.status = FAILED]]
    /\ UNCHANGED <<heap, jobs, jobs_lock, queue, canceller, uploading,
                   submitted, accepted, invoked,
                   JobManager, caller, constructed>>

\* line 123: CANCELLED if job.cancel_requested else FAILED (the read)
run_job_L123(w) ==
    /\ worker[w].pc = "L123"
    /\ worker' = [worker EXCEPT ![w] =
         [worker[w] EXCEPT !.pc = "L116",
            !.status = IF heap[worker[w].job].cancel_requested
                       THEN CANCELLED ELSE FAILED]]
    /\ UNCHANGED <<heap, jobs, jobs_lock, queue, canceller, uploading,
                   submitted, accepted, invoked,
                   JobManager, caller, constructed>>

\* Variant: the status write also clears cancel_requested.
run_job_status_clears(w) ==
    /\ worker[w].pc = "L116"
    /\ heap' = [heap EXCEPT ![worker[w].job].status = worker[w].status,
                            ![worker[w].job].cancel_requested = FALSE]
    /\ worker' = [worker EXCEPT ![w] = call(w, "L128", "idle")]
    /\ UNCHANGED <<jobs, jobs_lock, queue, canceller, uploading, submitted,
                   accepted, invoked,
                   JobManager, caller, constructed>>

\* lines 116, 118, 123: job.status = ... (the write), then finally, line
\* 125: self._update_job(job)
run_job_status(w) ==
    /\ worker[w].pc = "L116"
    /\ setattr(worker[w].job, "status", worker[w].status)
    /\ worker' = [worker EXCEPT ![w] = call(w, "L128", "idle")]
    /\ UNCHANGED <<jobs, jobs_lock, queue, canceller, uploading, submitted,
                   accepted, invoked,
                   JobManager, caller, constructed>>

\* The steps of _run_job, _update_job, set_progress and process_media.
run_job_steps(w) ==
    \/ submit_run(w)
    \/ run_job_L104(w)
    \/ run_job_L105(w)
    \/ run_job_L108(w)
    \/ _update_job(w)
    \/ process_media(w)
    \/ set_progress(w)
    \/ run_job_L112(w)
    \/ run_job_L115(w)
    \/ run_job_L121(w)
    \/ run_job_L123(w)
    \/ run_job_status(w)

_process_image(w) ==
    \/ process_image_L72(w)
    \/ process_image_returns(w)

_process_video(w) ==
    \/ process_video_L111(w)
    \/ process_video_L115(w)
    \/ process_video_frames(w)
    \/ process_video_L181(w)

_run_job(w) ==
    \/ run_job_steps(w)
    \/ _process_image(w)
    \/ _process_video(w)

\* ------------------------------------------- JobManager.serialize_job
\* Variant: download_url is given whenever output_path is set.
serialize_job_any_status(job) ==
    [id |-> job.id, status |-> job.status, progress |-> job.progress,
     error |-> job.error, media_type |-> job.media_type,
     output_path |-> job.output_path,
     download_url |-> IF job.output_path # None THEN {job.id} ELSE {},
     updated_at |-> job.updated_at, options |-> job.options]

\* lines 140-154; download_url is f"/api/download/{job.id}" ({job.id}) if
\* status_value == "COMPLETED" and job.output_path, else None ({}).
serialize_job(job) ==
    [id |-> job.id, status |-> job.status, progress |-> job.progress,
     error |-> job.error, media_type |-> job.media_type,
     output_path |-> job.output_path,
     download_url |-> IF job.status = COMPLETED /\ job.output_path # None
                      THEN {job.id} ELSE {},
     updated_at |-> job.updated_at, options |-> job.options]

\* routes/jobs.py download, lines 23-40: abort(404) unless the job is
\* stored, has an output_path, is COMPLETED and the file exists; 200 stands
\* for send_file.
download(job_id, file_exists) ==
    LET job == jobs[job_id] IN
    IF \/ job = 0
       \/ heap[job].output_path = None
       \/ heap[job].status # COMPLETED
       \/ ~file_exists
    THEN 404 ELSE 200

\* ---------------------------------------------------------- specifications
\* The application: jobs are created and enqueued by the upload route only.
Next ==
    \/ upload_create
    \/ upload_enqueue
    \/ cancel_job
    \/ \E w \in WorkerIds : _run_job(w)

Spec == Init /\ [][Next]_vars

\* The queue with fair scheduling: one image file is uploaded several
\* times and nobody cancels, so line 105 is never reached.  A pool thread
\* that can take a step again and again eventually does (also when its
\* wait for the lock is interrupted); collaborator calls are steps of the
\* pool thread: they return or raise.
run_image_job(w) ==
    \/ submit_run(w)
    \/ run_job_L104(w)
    \/ run_job_L108(w)
    \/ _update_job(w)
    \/ process_media(w)
    \/ _process_image(w)
    \/ set_progress(w)
    \/ run_job_L112(w)
    \/ run_job_L115(w)
    \/ run_job_L121(w)
    \/ run_job_L123(w)
    \/ run_job_status(w)

NextFair ==
    \/ same_upload_create
    \/ upload_enqueue
    \/ \E w \in WorkerIds : run_image_job(w)

SpecFair ==
    /\ Init /\ [][NextFair]_vars
    /\ \A w \in WorkerIds : SF_vars(run_image_job(w))

\* The saturated pool with fair scheduling: a burst of uploads, nobody
\* cancels.
NextBurst ==
    \/ burst_upload_create
    \/ upload_enqueue
    \/ \E w \in WorkerIds : run_image_job(w)

SpecBurst ==
    /\ Init /\ [][NextBurst]_vars
    /\ \A w \in WorkerIds : SF_vars(run_image_job(w))

\* The application, without cancel_job calls, when the stages of image jobs
\* call set_progress with any value.
NextProgress ==
    \/ upload_create
    \/ upload_enqueue
    \/ \E w \in WorkerIds :
         run_image_job(w) \/ _process_video(w) \/ stage_set_progress(w)

SpecProgress == Init /\ [][NextProgress]_vars

\* JobManager used as a library for files of the caller; nobody cancels.
NextFiles ==
    \/ api_create_job_for_file
    \/ api_enqueue
    \/ \E w \in WorkerIds : run_image_job(w) \/ _process_video(w)

SpecFiles == Init /\ [][NextFiles]_vars

\* JobManager used as a library: create_job and enqueue called in any order.
NextApi ==
    \/ api_create_job
    \/ api_enqueue
    \/ api_mutate_options
    \/ cancel_job
    \/ \E w \in WorkerIds : _run_job(w)

SpecApi == Init /\ [][NextApi]_vars

\* The application when one image file is uploaded several times and a job
\* is cancelled right after its upload.
NextSame ==
    \/ same_upload_create
    \/ upload_enqueue
    \/ cancel_new_call
    \/ cancel_job_L86
    \/ cancel_job_L92
    \/ cancel_job_L94
    \/ cancel_job_L95
    \/ cancel_job_L96
    \/ \E w \in WorkerIds : run_job_steps(w) \/ _process_image(w)

SpecSame == Init /\ [][NextSame]_vars

\* ------------------------------------------------------------ vocabulary
\* Worker w is inside process_media (between its call at line 111 and its
\* return or raise).
in_pipeline(w) ==
    \/ worker[w].pc \in {"I72", "I76", "I78", "I91", "V111", "V115", "V130",
                         "V132", "V136", "V144", "V181", "V198"}
    \/ /\ worker[w].pc \in {"L137", "L128", "L129"}
       /\ worker[w].ret \notin {"idle", "L111"}

\* ------------------------------------------------------------------- C1
\* C1: a job's status changes only along PENDING->RUNNING,
\* RUNNING->COMPLETED, RUNNING->FAILED, RUNNING->CANCELLED or
\* PENDING->CANCELLED, in every interleaving of create_job, enqueue,
\* cancel_job and worker steps; a terminal status never changes again.
StatusTransitions ==
    {<<PENDING, RUNNING>>, <<RUNNING, COMPLETED>>, <<RUNNING, FAILED>>,
     <<RUNNING, CANCELLED>>, <<PENDING, CANCELLED>>}

C1_StatusFollowsStateMachine ==
    [][\A o \in Objs :
         \/ heap'[o].status = heap[o].status
         \/ <<heap[o].status, heap'[o].status>> \in StatusTransitions]_vars

\* ------------------------------------------------------------------- C2
\* C2: when cancel_job returns true for a job it found PENDING, the job is
\* CANCELLED at that return, and from then on no worker invokes
\* process_media for the job, so no collaborator is called for it.
C2_PendingCancelNeverRuns ==
    [][/\ (canceller.pc = "L96" /\ canceller.was = PENDING
              /\ canceller'.pc = "idle")
          => heap'[canceller.job].status = CANCELLED
       /\ \A o \in Objs :
            accepted[o] = PENDING
            => /\ invoked'[o] = invoked[o]
               /\ \A w \in WorkerIds :
                    worker'[w].job = o => worker'[w].calls = <<>>]_vars

\* ------------------------------------------------------------------- C3
\* C3: when cancel_job returned true for a job it found RUNNING, the job
\* never becomes COMPLETED or FAILED, wherever the worker was at that time.
C3_RunningCancelWins ==
    \A o \in Objs :
      accepted[o] = RUNNING => heap[o].status \notin {COMPLETED, FAILED}

\* ------------------------------------------------------------------- C4
\* C4: in every state a reader can see, a job's output_path is set if and
\* only if its status is COMPLETED.
C4_OutputPathIffCompleted ==
    \A o \in Objs :
      (heap[o].output_path # None) <=> (heap[o].status = COMPLETED)

\* ------------------------------------------------------------------- C5
\* C5: in every state, a job's error is set if and only if its status is
\* FAILED; a CANCELLED job has no error.
C5_ErrorIffFailed ==
    \A o \in Objs :
      (heap[o].error # None) <=> (heap[o].status = FAILED)

\* ------------------------------------------------------------------- C6
\* Workers that are inside process_media for job object o.
executing(o) == {w \in WorkerIds : in_pipeline(w) /\ worker[w].job = o}

\* C6: for any sequence of create_job, enqueue and cancel_job calls, no two
\* workers execute the pipeline of the same job at the same time and the
\* pipeline is invoked at most once per job.
C6_PipelineAtMostOncePerJob ==
    \A o \in Objs : invoked[o] <= 1 /\ Cardinality(executing(o)) <= 1

\* ------------------------------------------------------------------- C7
\* C7: the progress values a reader polling get_job sees for one job never
\* decrease, from creation to the terminal state, for image and video jobs.
C7_ProgressNonDecreasing ==
    [][\A o \in Objs : heap'[o].progress >= heap[o].progress]_vars

\* A video job that went through 0.1, 0.98 and 1.0 and completed.
C7_Witness ==
    \E o \in Objs :
      /\ heap[o].media_type = "video"
      /\ heap[o].progress = 1000
      /\ heap[o].status = COMPLETED

\* ------------------------------------------------------------------- C8
\* C8: cancel_job(id) returns false and changes no field of any job when id
\* is unknown or the job is COMPLETED, FAILED or CANCELLED; in every other
\* case it sets cancel_requested and returns true.
C8_CancelRejectsUnknownOrTerminal ==
    [][canceller' # canceller =>
         LET job == jobs[canceller.job_id]
             rejected == job = 0 \/ heap[job].status \in Terminal IN
         /\ (canceller.pc = "L86" /\ rejected)
              => /\ canceller'.pc = "idle" /\ canceller'.ret = "False"
                 /\ heap' = heap /\ jobs' = jobs
         /\ (canceller.pc = "L86" /\ ~rejected)
              => canceller'.pc # "idle"
         /\ (canceller.pc \notin {"idle", "L86"} /\ canceller'.pc = "idle")
              => /\ canceller'.ret = "True"
                 /\ heap'[canceller.job].cancel_requested]_vars

\* The last call found a job that had completed, never cancelled, and
\* returned false.
C8_Witness ==
    /\ canceller.pc = "idle" /\ canceller.ret = "False" /\ canceller.job # 0
    /\ heap[canceller.job].status = COMPLETED
    /\ ~heap[canceller.job].cancel_requested

\* ------------------------------------------------------------------- C9
\* C9: once a cancel_job call for a job was accepted, a further call returns
\* true if the job is not terminal and false if it is, and itself changes
\* nothing in the job.
C9_RepeatedCancelIdempotent ==
    [][LET job == IF canceller.pc = "L86" THEN jobs[canceller.job_id]
                  ELSE canceller.job IN
       (canceller' # canceller /\ canceller.pc # "idle" /\ job # 0
           /\ accepted[job] # None)
         => /\ heap' = heap /\ jobs' = jobs
            /\ canceller.pc = "L86" =>
                 IF heap[job].status \in Terminal
                 THEN canceller'.pc = "idle" /\ canceller'.ret = "False"
                 ELSE canceller'.pc = "L92"
            /\ canceller'.pc = "idle" /\ canceller.pc # "L86"
                 => canceller'.ret = "True"]_vars

\* A second call on a job still RUNNING after an accepted call has returned
\* true.
C9_Witness ==
    /\ canceller.pc = "idle" /\ canceller.ret = "True" /\ canceller.job # 0
    /\ accepted[canceller.job] = RUNNING
    /\ heap[canceller.job].status = RUNNING
    /\ \E w \in WorkerIds : worker[w].job = canceller.job /\ in_pipeline(w)

\* ------------------------------------------------------------------ C10
\* C10: create_job with a media type other than image or video fails with
\* InvalidInput, and no Job with such a media type is stored or visible
\* through get_job or list_jobs.
C10_InvalidMediaTypeNotStored ==
    \A job_id \in JobIds :
      jobs[job_id] # 0 => heap[jobs[job_id]].media_type \in JobType

\* ------------------------------------------------------------------ C11
\* C11: an image job created with options {scale: 2}, mode unset, enqueued
\* and never cancelled has upscale_image called, then apply_enhancements
\* called with mode "general" and strength 0.6, and ends COMPLETED with an
\* output_path (the collaborators themselves not failing).
C11_ImageScale2Completes ==
    \A o \in Objs :
      (/\ heap[o].media_type = "image"
       /\ heap[o].options.scale = {2} /\ heap[o].options.mode = {}
       /\ ~heap[o].cancel_requested)
      => /\ \A w \in WorkerIds :
              worker[w].job = o
              => /\ worker[w].pc = "L121" => worker[w].exc = "ToolError"
                 /\ worker[w].pc = "L112"
                      => /\ worker[w].calls
                              = <<"upscale_image", "apply_enhancements">>
                         /\ enhance_mode(from_dict(heap[o].options))
                              = "general"
                         /\ enhance_strength(from_dict(heap[o].options))
                              = 600
         /\ (finished(o) /\ heap[o].error # "ToolError")
              => /\ heap[o].status = COMPLETED
                 /\ heap[o].output_path # None

\* ------------------------------------------------------------------ C12
\* C12: a video job run while ffmpeg is unavailable fails inside
\* process_media with only ffmpeg_available called for it (no frame
\* extraction, upscaler or enhancer call); when cancellation was not
\* requested it is RUNNING until it ends FAILED, with the error naming
\* ffmpeg.
C12_VideoWithoutFfmpegFails ==
    \A o \in Objs :
      /\ \A w \in WorkerIds :
           (worker[w].job = o
              /\ worker[w].exc = "ffmpeg is required for video processing")
           => /\ heap[o].media_type = "video"
              /\ worker[w].calls = <<"ffmpeg_available">>
              /\ ~heap[o].cancel_requested
                   => heap[o].status = IF worker[w].pc \in {"L128", "L129"}
                                       THEN FAILED ELSE RUNNING
      /\ (heap[o].error = "ffmpeg is required for video processing"
            /\ ~heap[o].cancel_requested)
         => /\ heap[o].status \in {RUNNING, FAILED}
            /\ finished(o) => heap[o].status = FAILED

\* A video job that found ffmpeg missing has ended FAILED.
C12_Witness ==
    \E o \in Objs :
      /\ heap[o].media_type = "video" /\ finished(o)
      /\ heap[o].status = FAILED /\ ~heap[o].cancel_requested
      /\ heap[o].error = "ffmpeg is required for video processing"

\* ------------------------------------------------------------------ C13
\* C13: when cancel_requested is set for a RUNNING video job while a frame
\* of the frame loop is being processed, the last collaborator call made
\* for the job is one of that frame (no later upscale_image or
\* apply_enhancements call), assemble_video is never called, and the job
\* ends CANCELLED.
C13_CancelInFrameLoopStopsAtFrame ==
    \A w \in WorkerIds :
      worker[w].cancel_in_frame
      => /\ heap[worker[w].job].media_type = "video"
         /\ heap[worker[w].job].cancel_requested
         /\ worker[w].pc \in {"L121", "L123", "L116", "L128", "L129"}
         /\ worker[w].ret = "idle"
         /\ \A i \in 1..Len(worker[w].calls) :
              worker[w].calls[i] # "assemble_video"
         /\ worker[w].calls[Len(worker[w].calls)]
              \in {"upscale_image", "apply_enhancements"}
         /\ worker[w].pc = "L116" => worker[w].status = CANCELLED
         /\ worker[w].pc \in {"L128", "L129"}
              => heap[worker[w].job].status = CANCELLED

\* The work item of a video job cancelled while its first frame was in
\* hand is about to end, the job CANCELLED.
C13_Witness ==
    \E w \in WorkerIds :
      /\ worker[w].cancel_in_frame /\ worker[w].pc = "L129"
      /\ heap[worker[w].job].status = CANCELLED
      /\ accepted[worker[w].job] = RUNNING

\* ------------------------------------------------------------------ C14
\* C14: with several jobs uploaded for the same input, a job whose
\* cancel_job call found it PENDING ends CANCELLED, whatever the other jobs
\* do, and no step of cancel_job(id) changes any field of a job with
\* another id.
C14_NoCrossJobInterference ==
    [][/\ canceller' # canceller
          => LET id == IF canceller.pc = "idle" THEN canceller'.job_id
                       ELSE canceller.job_id IN
             \A o \in Objs : heap[o].id # id => heap'[o] = heap[o]
       /\ \A o \in Objs :
            (accepted'[o] = PENDING /\ finished(o)')
            => heap'[o].status = CANCELLED]_vars

\* Of two jobs for the same file, the one cancelled while PENDING has ended
\* CANCELLED and the other, never cancelled, COMPLETED.
C14_Witness ==
    \E a, b \in Objs :
      /\ a # b
      /\ accepted[a] = PENDING /\ finished(a) /\ heap[a].status = CANCELLED
      /\ accepted[b] = None /\ finished(b) /\ heap[b].status = COMPLETED
      /\ ~heap[b].cancel_requested /\ heap[b].output_path # None

\* ------------------------------------------------------------------ C15
\* C15: with fair scheduling and collaborator calls that return or raise,
\* every enqueued job eventually has a terminal status with its work item
\* ended, and a pool thread in which the pipeline raised becomes idle
\* again, free for the jobs queued behind.
C15_EveryEnqueuedJobTerminates ==
    /\ \A o \in JobIds :
         (o \in Objs /\ submitted[o] > 0)
           ~> (o \in Objs /\ finished(o) /\ heap[o].status \in Terminal)
    /\ \A w \in WorkerIds :
         (worker[w].pc = "L121") ~> (worker[w].pc = "idle")

\* A job whose pipeline raised has ended FAILED, a job enqueued with it has
\* ended COMPLETED, and every pool thread is idle again.
C15_Witness ==
    \E a, b \in Objs :
      /\ finished(a) /\ heap[a].status = FAILED /\ heap[a].error # None
      /\ finished(b) /\ heap[b].status = COMPLETED
      /\ \A w \in WorkerIds : worker[w].pc = "idle"

\* ------------------------------------------------------------------ C16
\* C16: every write to a field of a stored Job is made while the job-store
\* lock is held, and no state a reader of get_job or list_jobs can see
\* shows the completion step half applied: a job whose status is RUNNING
\* has no output_path yet and its progress is below 1.0.
C16_JobWritesUnderJobsLock ==
    [][/\ \A o \in Objs : heap'[o] # heap[o] => jobs_lock
       /\ \A o \in Objs :
            (jobs[heap[o].id] = o /\ heap[o].status = RUNNING)
              => (heap[o].output_path = None /\ heap[o].progress < 1000)]_vars

\* ------------------------------------------------------------------ C17
\* C17: every mutation of a job advances its updated_at; so a job that no
\* cancel_job call and no pool thread is working on, and whose status,
\* progress or cancel_requested differs from what create_job set, has an
\* updated_at later than the one it was created with.
C17_MutationAdvancesUpdatedAt ==
    \A o \in Objs :
      ( /\ canceller.pc = "idle"
        /\ \A w \in WorkerIds : worker[w].job # o
        /\ \/ heap[o].status # PENDING
           \/ heap[o].progress # 0
           \/ heap[o].cancel_requested )
      => heap[o].updated_at > 0

\* ------------------------------------------------------------------ C18
\* C18: the pipeline of a job runs with the option values passed to
\* create_job.  Every job here is created with an empty options dict, so
\* whatever the caller does to that dict afterwards, the options the
\* pipeline works with are the defaults of an empty dict and no upscale
\* call is made.
C18_PipelineRunsWithCreationOptions ==
    \A w \in WorkerIds :
      in_pipeline(w) =>
        /\ worker[w].options = from_dict(NoOptions)
        /\ \A i \in 1..Len(worker[w].calls) :
             worker[w].calls[i] = "upscale_image"
               => heap[worker[w].job].media_type = "video"

\* ------------------------------------------------------------------ C19
\* C19: when the pipeline of a job raised and cancellation is not requested
\* for the job, the pool thread leaves _run_job with the job FAILED and its
\* error the message of the exception; the job's work item ended, it is
\* FAILED with that error, has no output_path and its pipeline was invoked
\* once; and a job that ended FAILED stays FAILED with the same error and
\* its pipeline is never invoked again.
C19_PipelineErrorEndsFailed ==
    [][/\ \A w \in WorkerIds :
            ( /\ worker[w].exc # None
              /\ ~heap[worker[w].job].cancel_requested )
            => /\ worker[w].pc \in {"L121", "L123", "L116", "L128", "L129"}
               /\ worker[w].pc \in {"L123", "L116", "L128", "L129"}
                    => heap[worker[w].job].error = worker[w].exc
               /\ worker[w].pc = "L116" => worker[w].status = FAILED
               /\ worker[w].pc \in {"L128", "L129"}
                    => heap[worker[w].job].status = FAILED
       /\ \A o \in Objs :
            ( /\ finished(o)
              /\ heap[o].error # None
              /\ ~heap[o].cancel_requested )
            => /\ heap[o].status = FAILED
               /\ heap[o].output_path = None
               /\ invoked[o] <= 1
       /\ \A o \in Objs :
            (finished(o) /\ heap[o].status = FAILED)
            => /\ finished(o)'
               /\ heap'[o].status = FAILED
               /\ heap'[o].error = heap[o].error
               /\ invoked'[o] = invoked[o]]_vars

\* The pipeline of a job raised, nobody asked to cancel it, its work item
\* has ended and the job is FAILED with the exception's message.
C19_Witness ==
    \E o \in Objs :
      /\ finished(o) /\ accepted[o] = None /\ ~heap[o].cancel_requested
      /\ invoked[o] = 1
      /\ heap[o].status = FAILED
      /\ heap[o].error \in {"ToolError", "TypeError",
                            "ffmpeg is required for video processing"}

\* ------------------------------------------------------------------ C20
\* C20: for an image job, when cancel_requested is set once the upscale
\* stage has been entered (past the check of line 72: the upscale_image
\* call is about to be made or is returning), the end of the stage is a
\* checkpoint: the next step of the pool thread unwinds the pipeline with
\* the cancellation signal and apply_enhancements is not called.
C20_CancelDuringUpscaleStopsPipeline ==
    [][\A w \in WorkerIds :
         ( /\ worker[w].pc \in {"I76", "I78"}
           /\ upscale_requested(worker[w].options)
           /\ heap[worker[w].job].cancel_requested
           /\ worker'[w] # worker[w] )
         => worker'[w].pc = "L121" /\ worker'[w].exc = "cancelled"]_vars

\* ------------------------------------------------------------------ C21
\* C21: when the pipeline unwound with the cancellation signal (raised by a
\* check that read cancel_requested true), cancel_requested is still true,
\* the status _run_job chooses at line 123 and stores is CANCELLED, and
\* the job whose work item ended that way is CANCELLED, never FAILED.
C21_CancellationSignalEndsCancelled ==
    /\ \A w \in WorkerIds :
         worker[w].exc = "cancelled"
           => /\ heap[worker[w].job].cancel_requested
              /\ worker[w].pc = "L116" => worker[w].status = CANCELLED
              /\ worker[w].pc \in {"L128", "L129"}
                   => heap[worker[w].job].status = CANCELLED
    /\ \A o \in Objs :
         (finished(o) /\ heap[o].error = "cancelled")
           => heap[o].status = CANCELLED

\* The frame loop's or stage's check stopped a job that was cancelled while
\* RUNNING: its work item ended with the signal's text as error and the
\* job is CANCELLED.
C21_Witness ==
    \E o \in Objs :
      /\ finished(o) /\ accepted[o] = RUNNING
      /\ heap[o].error = "cancelled" /\ heap[o].status = CANCELLED

\* ------------------------------------------------------------------ C22
\* C22: the frame loop of a video job treats a frame as the image sequence
\* treats an image: upscale_image is called for a frame only when scale,
\* target_width or target_height is set, and the frame then goes through
\* apply_enhancements, so a pool thread that started a frame does not leave
\* the loop with a TypeError of the upscale call.
C22_FrameProcessedAsImage ==
    \A w \in WorkerIds :
      (worker[w].job # 0 /\ heap[worker[w].job].media_type = "video")
        => /\ (\E i \in 1..Len(worker[w].calls) :
                 worker[w].calls[i] = "upscale_image")
                => upscale_requested(from_dict(heap[worker[w].job].options))
           /\ worker[w].exc # "TypeError"

\* ------------------------------------------------------------------ C23
\* C23: for a video job assemble_video is called at most once, as the last
\* call so far, when every extracted frame has been through
\* apply_enhancements; and a pool thread that is at the check after the
\* frame loop while cancel_requested is true unwinds with the cancellation
\* signal, without an assemble_video call.
C23_AssembleOnceAfterFramesAndCheck ==
    [][\A w \in WorkerIds :
         LET me == worker[w]
             n(calls, name) ==
                 Cardinality({i \in 1..Len(calls) : calls[i] = name}) IN
         /\ n(me.calls, "assemble_video") <= 1
         /\ me.pc \in {"V181", "V198"}
              => /\ n(me.calls, "assemble_video") = 1
                 /\ me.completed = me.frame_files
                 /\ n(me.calls, "apply_enhancements") = me.frame_files
         /\ ( /\ me.pc = "V130" /\ me.completed = me.frame_files
              /\ heap[me.job].cancel_requested
              /\ worker'[w] # me )
              => /\ worker'[w].exc = "cancelled"
                 /\ n(worker'[w].calls, "assemble_video") = 0]_vars

\* A video job passed the check after the frame loop with cancel_requested
\* false and assemble_video, called once, has returned.
C23_Witness ==
    \E w \in WorkerIds :
      /\ worker[w].pc = "V198"
      /\ heap[worker[w].job].media_type = "video"
      /\ ~heap[worker[w].job].cancel_requested
      /\ worker[w].completed = worker[w].frame_files
      /\ worker[w].calls[Len(worker[w].calls)] = "assemble_video"

\* ------------------------------------------------------------------ C24
\* Job objects a pool thread is running _run_job for.
running_jobs == {worker[w].job : w \in {v \in WorkerIds : worker[v].pc # "idle"}}

\* C24: with Workers pool threads at most Workers jobs are inside _run_job,
\* each in one thread; enqueue can always be called and adds the job to
\* the queue; a queued job is PENDING and untouched, the oldest one is
\* taken as soon as a pool thread is idle, and a job enqueued while every
\* pool thread is busy is eventually run to a terminal status.
C24_PoolBoundsRunningJobs ==
    /\ [](/\ Cardinality(running_jobs) <= Workers
          /\ \A v, w \in WorkerIds :
               (v # w /\ worker[v].pc # "idle") => worker[v].job # worker[w].job
          /\ uploading # {} => ENABLED upload_enqueue
          /\ \A i \in 1..Len(queue) :
               /\ heap[queue[i]].status = PENDING
               /\ heap[queue[i]].progress = 0
               /\ invoked[queue[i]] = 0
               /\ queue[i] \notin running_jobs
          /\ (queue # <<>> /\ \E w \in WorkerIds : worker[w].pc = "idle")
               => ENABLED (\E w \in WorkerIds : submit_run(w)))
    /\ \A o \in JobIds :
         ( /\ o \in Objs
           /\ \E i \in 1..Len(queue) : queue[i] = o
           /\ \A w \in WorkerIds : worker[w].pc # "idle" )
         ~> (o \in Objs /\ finished(o) /\ heap[o].status \in {COMPLETED, FAILED})

\* Both pool threads are inside _run_job, one of them with a pipeline that
\* raised, and a third job waits in the queue, PENDING.
C24_Witness ==
    /\ \A w \in WorkerIds : worker[w].pc # "idle"
    /\ \E w \in WorkerIds : worker[w].pc = "L121"
    /\ Len(queue) = 1
    /\ heap[queue[1]].status = PENDING
    /\ Cardinality(running_jobs) = Workers

\* ------------------------------------------------------------------ C25
\* C25: a video job reports 0.1, then 0.1 + 0.8 * (k / total) after its
\* k-th frame, a value above 0.1 and at most 0.9, then 0.98 and 1.0: while
\* a pool thread is in the frame loop with k frames done, the job's
\* progress is that value, and a video job that nobody cancelled and whose
\* collaborators did not fail has ended with progress 1.0.
C25_VideoProgressSequence ==
    /\ \A w \in WorkerIds :
         ( /\ worker[w].pc \in {"V130", "V132", "V136", "V144"}
           /\ worker[w].completed > 0 /\ worker[w].total_frames > 0 )
         => LET p == heap[worker[w].job].progress IN
            /\ p = stage_progress(worker[w].completed, worker[w].total_frames)
            /\ p > 100 /\ p <= 900
            /\ worker[w].completed = worker[w].frame_files => p = 900
    /\ \A o \in Objs :
         ( /\ heap[o].media_type = "video" /\ finished(o)
           /\ ~heap[o].cancel_requested
           /\ heap[o].error \notin
                {"ToolError", "ffmpeg is required for video processing"} )
         => heap[o].progress = 1000

\* ------------------------------------------------------------------ C26
\* The scratch paths pool thread w has handed to a collaborator to write
\* to: the frame directory of a video job once extract_frames was called
\* (the frames' temporary files lie in it), the temporary upscale file of
\* an image job once upscale_image was.
scratch_paths(w) ==
    LET job == heap[worker[w].job]
        called(name) == \E i \in 1..Len(worker[w].calls) :
                           worker[w].calls[i] = name IN
    (IF job.media_type = "video" /\ called("extract_frames")
     THEN {frames_job_dir(job)} ELSE {})
    \cup (IF job.media_type = "image" /\ called("upscale_image")
          THEN {image_temp_up(job)} ELSE {})

C27_CancelledResultNotAvailable ==
    [][/\ \A w \in WorkerIds :
            LET me == worker[w] IN
            ( /\ me.pc \in {"L112", "L113", "L115", "L116", "L128", "L129"}
              /\ me.pc \in {"L128", "L129"} => me.ret = "idle"
              /\ me.exc = None
              /\ me.pc \in {"L116", "L128", "L129"} => me.status = CANCELLED
              /\ heap[me.job].cancel_requested )
            => /\ serialize_job(heap[me.job]).download_url = {}
               /\ \A file_exists \in BOOLEAN :
                    download(heap[me.job].id, file_exists) = 404
               /\ (me.pc = "L115" /\ worker'[w] # me)
                    => worker'[w].status = CANCELLED
               /\ me.pc \in {"L128", "L129"}
                    => heap[me.job].status = CANCELLED
       /\ \A o \in Objs :
            /\ (finished(o) /\ heap[o].status = CANCELLED)
                 => /\ serialize_job(heap[o]).download_url = {}
                    /\ \A file_exists \in BOOLEAN :
                         download(heap[o].id, file_exists) = 404
                    /\ heap'[o].status = CANCELLED
            /\ serialize_job(heap[o]).download_url # {}
                 => heap[o].status = COMPLETED /\ heap[o].output_path # None]_vars

\* The pipeline of a job cancelled while RUNNING returned an output_path;
\* the job has ended CANCELLED, with the output_path in its record and no
\* download_url.
C27_Witness ==
    \E o \in Objs :
      /\ finished(o) /\ accepted[o] = RUNNING
      /\ heap[o].status = CANCELLED /\ heap[o].error = None
      /\ heap[o].output_path # None
      /\ serialize_job(heap[o]).download_url = {}

\* ------------------------------------------------------------------ C28
\* C28: no step of cancel_job, of a pool thread or of set_progress sets a
\* job's cancel_requested back to false once it is true.
C28_CancelRequestedNeverCleared ==
    [][\A o \in Objs :
         heap[o].cancel_requested => heap'[o].cancel_requested]_vars

\* A job cancelled while RUNNING went through set_progress(1.0), the status
\* write and _update_job, and its work item ended with the flag still set.
C28_Witness ==
    \E o \in Objs :
      /\ finished(o) /\ accepted[o] = RUNNING
      /\ heap[o].cancel_requested
      /\ heap[o].progress = 1000 /\ heap[o].updated_at > 1

\* ------------------------------------------------------------------ C29
\* C29: set_progress(job, v) stores min(1, max(0, v)) as the job's progress
\* and changes no other field of it, and the _update_job call it ends with
\* changes updated_at only, whatever v is; every job's progress lies in
\* [0, 1] in every state.
C29_SetProgressClamps ==
    [][/\ \A w \in WorkerIds :
            LET me == worker[w]
                v == me.progress
                stored == IF v < 0 THEN 0 ELSE IF v > 1000 THEN 1000 ELSE v IN
            /\ (me.pc = "L137" /\ worker'[w] # me)
                 => heap' = [heap EXCEPT ![me.job].progress = stored]
            /\ ( /\ me.pc \in {"L128", "L129"} /\ worker'[w] # me
                 /\ me.ret \notin {"idle", "L111"} )
                 => /\ \E t \in 0..(MaxReports + 4) :
                         heap' = [heap EXCEPT ![me.job].updated_at = t]
                    /\ heap'[me.job].updated_at >= heap[me.job].updated_at
                    /\ heap'[me.job].progress = stored
       /\ \A o \in Objs : heap[o].progress >= 0 /\ heap[o].progress <= 1000]_vars

\* set_progress was called with 1.5 for a job whose progress was 0: 1.0
\* was stored.
C29_Witness ==
    \E w \in WorkerIds :
      /\ worker[w].pc = "L128" /\ worker[w].ret = "I72"
      /\ worker[w].progress = 1500
      /\ heap[worker[w].job].progress = 1000
      /\ heap[worker[w].job].updated_at = 1

\* ------------------------------------------------------------------ C30
\* C30: no pool thread finds cancel_requested true and status PENDING at
\* line 104, so none is ever in the early-return branch of line 105; and
\* whenever no cancel_job call holds the lock, no job has cancel_requested
\* true and status PENDING.
C30_EarlyReturnNeverTaken ==
    /\ \A w \in WorkerIds : worker[w].pc # "L105"
    /\ ~jobs_lock =>
         \A o \in Objs :
           ~(heap[o].cancel_requested /\ heap[o].status = PENDING)

\* ------------------------------------------------ JobManager.get_shared
\* Lines 64-69, one action per line as a thread executes it.  The existing
\* state of the job engine is left alone: get_shared touches only the class
\* attributes.
get_shared_unchanged ==
    UNCHANGED <<heap, jobs, jobs_lock, queue, worker, canceller, uploading,
                submitted, accepted, invoked>>

\* A thread calls JobManager.get_shared(); early records whether no instance
\* existed yet at that moment.  (The guard on constructed only caps the
\* history counter.)
get_shared_call(c) ==
    /\ caller[c].pc = "idle"
    /\ constructed <= MaxCallers
    /\ caller' = [caller EXCEPT ![c] =
                    [pc |-> "L66", ret |-> 0, early |-> JobManager._shared = 0]]
    /\ UNCHANGED <<JobManager, constructed>>
    /\ get_shared_unchanged

\* Line 66 entered without taking cls._lock.
get_shared_L66_unlocked(c) ==
    /\ caller[c].pc = "L66"
    /\ caller' = [caller EXCEPT ![c].pc = "L67"]
    /\ UNCHANGED <<JobManager, constructed>>
    /\ get_shared_unchanged

\* Line 66: with cls._lock: blocks until the lock is free, then holds it.
get_shared_L66(c) ==
    /\ caller[c].pc = "L66"
    /\ JobManager._lock = 0
    /\ JobManager' = [JobManager EXCEPT !._lock = c]
    /\ caller' = [caller EXCEPT ![c].pc = "L67"]
    /\ UNCHANGED constructed
    /\ get_shared_unchanged

\* Line 67: if cls._shared is None.
get_shared_L67(c) ==
    /\ caller[c].pc = "L67"
    /\ caller' = [caller EXCEPT ![c].pc =
                    IF JobManager._shared = 0 THEN "L68" ELSE "L69"]
    /\ UNCHANGED <<JobManager, constructed>>
    /\ get_shared_unchanged

\* Line 68: cls._shared = JobManager(): a new instance is constructed (the
\* only place where one is) and stored in the class attribute.
get_shared_L68(c) ==
    /\ caller[c].pc = "L68"
    /\ constructed' = constructed + 1
    /\ JobManager' = [JobManager EXCEPT !._shared = constructed + 1]
    /\ caller' = [caller EXCEPT ![c].pc = "L69"]
    /\ get_shared_unchanged

\* Line 69: return cls._shared; leaving the with block releases cls._lock.
get_shared_L69(c) ==
    /\ caller[c].pc = "L69"
    /\ caller' = [caller EXCEPT ![c].pc = "idle", ![c].ret = JobManager._shared]
    /\ JobManager' = [JobManager EXCEPT !._lock = 0]
    /\ UNCHANGED constructed
    /\ get_shared_unchanged

get_shared(c) ==
    \/ get_shared_L66(c)
    \/ get_shared_L67(c)
    \/ get_shared_L68(c)
    \/ get_shared_L69(c)

\* Threads calling get_shared, any number of times each, in any interleaving.
NextShared ==
    \/ \E c \in CallerIds : get_shared_call(c)
    \/ \E c \in CallerIds : get_shared(c)

SpecShared == Init /\ [][NextShared]_vars

\* C31: every call of get_shared returns the one instance held by
\* JobManager._shared, so any two callers that have returned hold the same
\* instance, and at most one JobManager is ever constructed, also when
\* several threads call get_shared before the first instance exists.
C31_SingleSharedInstance ==
    /\ constructed <= 1
    /\ JobManager._shared \in {0, constructed}
    /\ \A c \in CallerIds :
         caller[c].ret # 0 => caller[c].ret = JobManager._shared
    /\ \A c, d \in CallerIds :
         caller[c].ret # 0 /\ caller[d].ret # 0 => caller[c].ret = caller[d].ret

\* Two threads called get_shared while no instance existed; both have
\* returned, with the same instance, and one instance was constructed.
C31_Witness ==
    \E c, d \in CallerIds :
      /\ c # d
      /\ caller[c].pc = "idle" /\ caller[d].pc = "idle"
      /\ caller[c].early /\ caller[d].early
      /\ caller[c].ret # 0 /\ caller[c].ret = caller[d].ret
      /\ constructed = 1

====
